---- MODULE Spec2Model ----
(***************************************************************************)
(* Semi-supervised node classification with GraphSage                      *)
(* (src/basic_tasks/Node_classification.ipynb).                            *)
(*                                                                         *)
(* The notebook builds a GraphSAGEModel out of library SAGEConv layers,    *)
(* wraps it in NodeClassification (cross-entropy loss), and runs a         *)
(* training loop with a validation evaluation per epoch and one final      *)
(* test evaluation.  Tensors are modelled as integer tables (fixed point), *)
(* Python indices are 0-based, and the random parts (parameter             *)
(* initialisation, dropout masks) are nondeterministic choices.            *)
(***************************************************************************)
EXTENDS Integers, Sequences, FiniteSets, TLC

VARIABLES
    pc,         \* position in the notebook / in the called function
    n_layers,   \* hyperparameter of cell 8
    n_epochs,   \* hyperparameter of cell 12
    dropout,    \* dropout probability, in tenths
    labels,     \* per-node class, torch.LongTensor(data.labels)
    train_idx,  \* np.where(data.train_mask > 0)[0]
    val_idx,    \* np.where(data.val_mask > 0)[0]
    test_idx,   \* np.where(data.test_mask > 0)[0]
    layers,     \* GraphSAGEModel.layers (nn.ModuleList), the layer configurations
    params,     \* the learnable parameters of every layer
    opt_params, \* the layers whose parameters the optimizer holds
    training,   \* nn.Module.training of the model
    grads,      \* the .grad of every parameter
    tape,       \* what loss.backward() differentiates: the last training forward
    logits,     \* the embedding table of the last forward pass
    loss,       \* the loss of the current epoch
    acc,        \* the accuracy returned by the last NCEvaluate
    it,         \* the next value of the range(n_epochs) iterator
    epoch,      \* the loop variable
    out,        \* the printed reports
    ret,        \* outcome of a single call of forward / NCEvaluate
    hist,       \* history: every forward pass and optimizer update made so far
    nupd        \* history: number of optimizer writes per layer

vars == << pc, n_layers, n_epochs, dropout, labels, train_idx, val_idx, test_idx,
           layers, params, opt_params, training, grads, tape, logits, loss, acc,
           it, epoch, out, ret, hist, nupd >>

cfgvars == << n_layers, n_epochs, dropout, labels, train_idx, val_idx, test_idx >>

-----------------------------------------------------------------------------
(* Bounds of the model *)

NumNodes  == 5      \* nodes of the graph (pubmed: 19717)
InFeats   == 1      \* width of the input features (pubmed: 500)
MaxLayers == 2      \* largest n_layers tried
MaxEpochs == 2      \* largest n_epochs tried
FeatScale == 6      \* fixed-point unit of the feature values
MaxIdxLen == 2      \* longest index array passed to a single call
MaxScore  == 1      \* scores of a drawn score table lie in 0..MaxScore
NHidden   == 2      \* hidden width tried (the notebook uses 64)
MaxWidth  == 3      \* largest layer width passed to a single constructor call

(* Program constants *)

NClasses  == 3      \* data.num_labels of pubmed

Nodes   == 0 .. (NumNodes - 1)
Classes == 0 .. (NClasses - 1)

None == "None"

\* a float is a pair << numerator, denominator >>; nan is 0/0
NaN == << 0, 0 >>

\* a name not bound yet: no value / no tensor / no epoch
NoValue == << >>
NoEpoch == 0 - 1
NoTape  == [params |-> << >>, mode |-> FALSE, mask |-> {}]

-----------------------------------------------------------------------------
(* Python helpers *)

\* range(n) with the end included: the sequence 0, 1, ..., n
RangeInclusive(n) == [i \in 1 .. (IF n >= 0 THEN n + 1 ELSE 0) |-> i - 1]

\* range(n) counting from 1: the sequence 1, ..., n
RangeFromOne(n) == [i \in 1 .. (IF n > 0 THEN n ELSE 0) |-> i]

\* range(n): the sequence 0, 1, ..., n-1; empty when n <= 0
Range(n) == [i \in 1 .. (IF n > 0 THEN n ELSE 0) |-> i - 1]


RECURSIVE SumUpTo(_, _)
\* f[0] + ... + f[n]
SumUpTo(f, n) == IF n < 0 THEN 0 ELSE f[n] + SumUpTo(f, n - 1)

RECURSIVE Stored(_, _)
\* the function f on 0 .. n with every value computed once and stored
Stored(f, n) == IF n <= 0 THEN (0 :> f[0]) ELSE (n :> f[n]) @@ Stored(f, n - 1)

\* Op applied to the value of x, with x computed once
With(x, Op(_)) == CHOOSE r \in {Op(y) : y \in {x}} : TRUE

Sign(x) == With(x, LAMBDA y : IF y > 0 THEN 1 ELSE IF y < 0 THEN 0 - 1 ELSE 0)

\* a tensor of shape (NumNodes, w) held in memory
Tensor(t, w) == Stored([v \in Nodes |-> Stored(t[v], w - 1)], NumNodes - 1)

\* s[1] + ... + s[Len(s)]
SumSeq(s) == With(s, LAMBDA t : SumUpTo([k \in 0 .. (Len(t) - 1) |-> t[k + 1]], Len(t) - 1))

-----------------------------------------------------------------------------
(* The data set: graph, features (cells 5 and 7) *)

\* g = DGLGraph(data.graph): a chain 0 - 1 - ... - (NumNodes-1), undirected,
\* as the set of in-neighbours of every node
g == [v \in Nodes |-> {u \in Nodes : u = v + 1 \/ v = u + 1}]

Neigh(v) == g[v]

\* features = torch.FloatTensor(data.features): sparse, non-negative rows
features == [v \in Nodes |-> [c \in 0 .. (InFeats - 1) |->
                IF v % InFeats = c THEN FeatScale * (v + 1) ELSE 0]]

in_feats  == InFeats
n_classes == NClasses

-----------------------------------------------------------------------------
(* GraphSAGEModel.__init__ *)

\* dgl_conv.SAGEConv(in, out, aggregator_type, feat_drop=..., activation=...)
SAGEConvInit(i, o, fd, act) ==
    [in_feats |-> i, out_feats |-> o, feat_drop |-> fd, activation |-> act]

\* __init__ with the activation passed to the output layer too
GraphSAGEModelInitActivated(inf, hid, outd, nl, act, dr) ==
    << SAGEConvInit(inf, hid, dr, act) >>
    \o [i \in 1 .. Len(Range(nl - 1)) |-> SAGEConvInit(hid, hid, dr, act)]
    \o << SAGEConvInit(hid, outd, dr, act) >>

\* a constructor building every hidden layer on the input width
GraphSAGEModelInitUnchained(inf, hid, outd, nl, act, dr) ==
    << SAGEConvInit(inf, hid, dr, act) >>
    \o [i \in 1 .. Len(Range(nl - 1)) |-> SAGEConvInit(inf, hid, dr, act)]
    \o << SAGEConvInit(hid, outd, dr, None) >>

\* self.layers after __init__: input layer, n_layers - 1 hidden layers, output layer
GraphSAGEModelInit(inf, hid, outd, nl, act, dr) ==
    << SAGEConvInit(inf, hid, dr, act) >>
    \o [i \in 1 .. Len(Range(nl - 1)) |-> SAGEConvInit(hid, hid, dr, act)]
    \o << SAGEConvInit(hid, outd, dr, None) >>

\* The parameters a SAGEConv layer creates: fc_neigh.weight (out x in) and bias.
\* The library draws the weights at random; s selects one of the drawn tables.
InitParams(ls, s) ==
    [l \in 1 .. Len(ls) |->
        [W |-> [o \in 0 .. (ls[l].out_feats - 1) |->
                  [i \in 0 .. (ls[l].in_feats - 1) |->
                     IF o = i THEN 1 ELSE ((o + i + s + l) % 3) - 1]],
         b |-> [o \in 0 .. (ls[l].out_feats - 1) |-> 0]]]

ZeroGrads(ls) ==
    [l \in 1 .. Len(ls) |->
        [W |-> [o \in 0 .. (ls[l].out_feats - 1) |->
                  [i \in 0 .. (ls[l].in_feats - 1) |-> 0]],
         b |-> [o \in 0 .. (ls[l].out_feats - 1) |-> 0]]]

-----------------------------------------------------------------------------
(* SAGEConv.forward and GraphSAGEModel.forward *)

\* A dropout mask: the set of entries << layer, node, column >> zeroed in this pass
NoMask == {}

\* The nodes whose first feature a drawn mask may zero
DropNodes == {0}

\* Dropout is active on layer l only in training mode and with a positive
\* feat_drop (nn.Dropout is the identity in eval mode and for p = 0).
DropLayers(ls, mode) == {l \in 1 .. Len(ls) : mode /\ ls[l].feat_drop > 0}

\* The masks a forward pass may draw: nothing dropped, or the first feature of
\* the DropNodes dropped on every layer where dropout is active
MaskChoices(ls, mode) ==
    {NoMask, {<< l, v, 0 >> : l \in DropLayers(ls, mode), v \in DropNodes}}

\* nn.Dropout(p): a dropped entry is 0, a kept one is scaled by 1 / (1 - p)
FeatDrop(layer, l, h, mode, mask) ==
    IF mode /\ layer.feat_drop > 0
    THEN Tensor([v \in Nodes |-> [c \in DOMAIN h[v] |->
                    IF << l, v, c >> \in mask THEN 0
                    ELSE (h[v][c] * 10) \div (10 - layer.feat_drop)]], layer.in_feats)
    ELSE h

Relu(x) == IF x > 0 THEN x ELSE 0

\* the 'gcn' aggregate of a layer:
\*   h_neigh = (sum of the neighbours' rows + own row) / (in-degree + 1)
Aggregate(layer, hd) ==
    LET agg(v, c) == LET f == [u \in Nodes |-> IF u \in Neigh(v) \/ u = v THEN hd[u][c] ELSE 0]
                     IN  SumUpTo(f, NumNodes - 1) \div (Cardinality(Neigh(v)) + 1)
    IN  Tensor([v \in Nodes |-> [c \in 0 .. (layer.in_feats - 1) |-> agg(v, c)]],
               layer.in_feats)

\* rst = fc_neigh(h_neigh); activation(rst) when an activation is configured
Linear(layer, p, hn) ==
    LET lin(v, o) == LET f == [i \in 0 .. (layer.in_feats - 1) |-> p.W[o][i] * hn[v][i]]
                     IN  SumUpTo(f, layer.in_feats - 1) + p.b[o]
    IN  Tensor([v \in Nodes |-> [o \in 0 .. (layer.out_feats - 1) |->
                   IF layer.activation = None THEN lin(v, o) ELSE Relu(lin(v, o))]],
               layer.out_feats)

\* layer(g, h) with aggregator_type = 'gcn': feat_drop, aggregate, linear map
SAGEConv(layer, l, p, h, mode, mask) ==
    With(FeatDrop(layer, l, h, mode, mask),
         LAMBDA hd : With(Aggregate(layer, hd), LAMBDA hn : Linear(layer, p, hn)))

RECURSIVE ForwardFrom(_, _, _, _, _, _)
\* the loop "for layer in self.layers: h = layer(g, h)" from layer l on
ForwardFrom(ls, ps, l, h, mode, mask) ==
    IF l > Len(ls) THEN h
    ELSE With(SAGEConv(ls[l], l, ps[l], h, mode, mask),
              LAMBDA x : ForwardFrom(ls, ps, l + 1, x, mode, mask))

\* GraphSAGEModel.forward(g, features)
Forward(ls, ps, feats, mode, mask) ==
    With(ps, LAMBDA p : ForwardFrom(ls, p, 1, feats, mode, mask))

-----------------------------------------------------------------------------
(* Indexing a tensor with an index array, as numpy / torch do *)

Raise(e)  == [ok |-> FALSE, err |-> e]
Return(x) == [ok |-> TRUE, val |-> x]

\* an index i is accepted for a dimension of size n iff -n <= i < n
IndexOk(i, n) == (0 - n) <= i /\ i < n

\* a negative index counts from the end
Wrap(i, n) == IF i < 0 THEN i + n ELSE i

\* t[idx] for a table or vector t over Nodes: the rows in the order of idx
Take(t, idx) == [k \in 1 .. Len(idx) |-> t[Wrap(idx[k], NumNodes)]]

TakeOk(idx) == \A k \in 1 .. Len(idx) : IndexOk(idx[k], NumNodes)

-----------------------------------------------------------------------------
(* NodeClassification.forward: the loss *)

RowMax(row) == CHOOSE m \in {row[c] : c \in DOMAIN row} :
                   \A c \in DOMAIN row : row[c] <= m

\* log(1 + exp(d)) in fixed point: 0 below -FeatScale, d + FeatScale above
SoftPlus(d) == IF d + FeatScale > 0 THEN d + FeatScale ELSE 0

\* torch.nn.CrossEntropyLoss(), reduction 'mean', on the rows zs with targets ts:
\* per row  -z[t] + log(sum_c exp(z[c])) = log(1 + sum_{c # t} exp(z[c] - z[t])),
\* taken in fixed point as the sum of SoftPlus(z[c] - z[t]) over c # t; the
\* mean is the pair << sum, count >>, and the mean over no rows is 0/0 = nan.
RowLoss(z, t) ==
    SumUpTo([c \in DOMAIN z |-> IF c = t THEN 0 ELSE SoftPlus(z[c] - z[t])], NClasses - 1)

CrossEntropyLoss(zs, ts) ==
    IF Len(zs) = 0 THEN NaN
    ELSE << SumSeq([k \in 1 .. Len(zs) |-> RowLoss(zs[k], ts[k])]), Len(zs) >>

\* a loss taken over the rows of every node, whatever idx holds
LossOfAllNodes(tbl, labs, idx) ==
    Return(CrossEntropyLoss(Take(tbl, [k \in 1 .. NumNodes |-> k - 1]),
                            Take(labs, [k \in 1 .. NumNodes |-> k - 1])))

\* return self.loss_fcn(logits[train_idx], labels[train_idx])
LossOf(tbl, labs, idx) ==
    IF ~TakeOk(idx) THEN Raise("IndexError")
    ELSE Return(CrossEntropyLoss(Take(tbl, idx), Take(labs, idx)))

-----------------------------------------------------------------------------
(* NCEvaluate *)

\* an arg-max that returns the index of the last maximal value
ArgMaxLast(row) == CHOOSE c \in DOMAIN row :
                       /\ \A d \in DOMAIN row : row[d] <= row[c]
                       /\ \A d \in DOMAIN row : d > c => row[d] < row[c]

\* torch.max(logits, dim=1)[1] for one row: the index of the first maximal value
ArgMax(row) == CHOOSE c \in DOMAIN row :
                   /\ row[c] = RowMax(row)
                   /\ \A d \in DOMAIN row : d < c => row[d] < row[c]

\* torch.sum(indices == test_labels)
Correct(zs, ts) == SumSeq([k \in 1 .. Len(zs) |-> IF ArgMax(zs[k]) = ts[k] THEN 1 ELSE 0])

\* NCEvaluate after the forward pass: logits[test_idx], labels[test_idx],
\* arg-max, count, correct.item() * 1.0 / len(test_labels)
AccuracyOf(tbl, labs, idx) ==
    IF ~TakeOk(idx) THEN Raise("IndexError")
    ELSE IF Len(idx) = 0 THEN Raise("ZeroDivisionError")
    ELSE Return(<< Correct(Take(tbl, idx), Take(labs, idx)), Len(idx) >>)

\* NCEvaluate without model.eval(): the mode stays as it was
EvalModeKept(mode) == mode

\* model.eval(): the mode the model is in while NCEvaluate runs its forward pass
EvalMode(mode) == FALSE

-----------------------------------------------------------------------------
(* loss.backward() and optimizer.step() *)

\* the numerator of the training loss as a function of the parameters
LossNum(ls, ps, labs, idx, mode, mask) ==
    With(Forward(ls, ps, features, mode, mask),
         LAMBDA z : CrossEntropyLoss(Take(z, idx), Take(labs, idx))[1])

\* d loss / d parameter, by its sign: the loss with the entry raised by one
\* against the loss as it is (reverse-mode differentiation is the library's)
Gradient(ls, t, labs, idx) ==
    LET dW(l, o, i, base) == LossNum(ls, [t.params EXCEPT ![l].W[o][i] = @ + 1],
                                     labs, idx, t.mode, t.mask) - base
        db(l, o, base)    == LossNum(ls, [t.params EXCEPT ![l].b[o] = @ + 1],
                                     labs, idx, t.mode, t.mask) - base
    IN  With(LossNum(ls, t.params, labs, idx, t.mode, t.mask),
             LAMBDA base :
                [l \in 1 .. Len(ls) |->
                    [W |-> [o \in 0 .. (ls[l].out_feats - 1) |->
                              [i \in 0 .. (ls[l].in_feats - 1) |-> Sign(dW(l, o, i, base))]],
                     b |-> [o \in 0 .. (ls[l].out_feats - 1) |-> Sign(db(l, o, base))]]])

\* entrywise a + k * b on one layer's parameters
Axpy(ls, l, a, k, b) ==
    [W |-> [o \in 0 .. (ls[l].out_feats - 1) |->
              [i \in 0 .. (ls[l].in_feats - 1) |-> a.W[o][i] + k * b.W[o][i]]],
     b |-> [o \in 0 .. (ls[l].out_feats - 1) |-> a.b[o] + k * b.b[o]]]

\* backward accumulates into .grad
Accumulate(ls, gs, d) == [l \in 1 .. Len(ls) |-> Axpy(ls, l, gs[l], 1, d[l])]

\* an optimizer built on the parameters of the input layer alone
OptimizerParamsFirst(ls) == {1}

\* torch.optim.Adam(model.parameters(), ...): the layers whose parameters
\* model.parameters() yields
OptimizerParams(ls) == 1 .. Len(ls)

\* optimizer.step(): every parameter the optimizer holds moves against its gradient
OptimizerStep(ls, ps, gs, held) ==
    [l \in 1 .. Len(ls) |-> IF l \in held THEN Axpy(ls, l, ps[l], 0 - 1, gs[l]) ELSE ps[l]]

-----------------------------------------------------------------------------
(* The inputs tried *)

\* the role of the k-th node of a split
RoleOf(k) == IF k = 0 THEN "train" ELSE IF k = 1 THEN "val" ELSE IF k = 2 THEN "train"
             ELSE IF k = 3 THEN "test" ELSE IF k = 4 THEN "none"
             ELSE IF k % 2 = 1 THEN "val" ELSE "test"

\* data.train_mask, data.val_mask, data.test_mask of split r: disjoint masks
MaskOf(r, role) == [v \in Nodes |-> IF RoleOf((v + r) % NumNodes) = role THEN 1 ELSE 0]

RECURSIVE WhereFrom(_, _)
WhereFrom(mask, v) ==
    IF v >= NumNodes THEN << >>
    ELSE (IF mask[v] > 0 THEN << v >> ELSE << >>) \o WhereFrom(mask, v + 1)

\* np.where(mask > 0)[0]: the indices of the set entries, ascending
Where(mask) == WhereFrom(mask, 0)

\* labels = torch.LongTensor(data.labels): the labels of the data set
DataLabels == [v \in Nodes |-> v % NClasses]

\* the label vectors tried in single calls
LabelChoices == {[v \in Nodes |-> (v + b) % NClasses] : b \in 0 .. 1}

\* the parameter initialisations tried
Seeds == {1}

Dropouts == {0, 5}

\* the train/validation/test splits tried
Splits == {0, 1}

-----------------------------------------------------------------------------
(* The notebook run: cells 8 to 12 *)

Init ==
    /\ pc = "build"
    /\ n_layers \in (0 - 1) .. MaxLayers
    /\ n_epochs \in (0 - 1) .. MaxEpochs
    /\ dropout \in Dropouts
    /\ labels = DataLabels
    /\ \E r \in Splits :
          /\ train_idx = Where(MaskOf(r, "train"))
          /\ val_idx = Where(MaskOf(r, "val"))
          /\ test_idx = Where(MaskOf(r, "test"))
    /\ layers = << >>
    /\ params = << >>
    /\ opt_params = {}
    /\ training = TRUE
    /\ grads = << >>
    /\ tape = NoTape
    /\ logits = NoValue
    /\ loss = NoValue
    /\ acc = NoValue
    /\ it = 0
    /\ epoch = NoEpoch
    /\ out = << >>
    /\ ret = None
    /\ hist = << >>
    /\ nupd = << >>

\* cell 8: gconv_model = GraphSAGEModel(in_feats, n_hidden, n_classes, n_layers,
\*                                       F.relu, dropout, aggregator_type)
BuildModel ==
    /\ pc = "build"
    /\ pc' = "setup"
    /\ layers' = GraphSAGEModelInit(in_feats, NHidden, n_classes, n_layers, "relu", dropout)
    /\ \E s \in Seeds : params' = InitParams(layers', s)
    /\ grads' = ZeroGrads(layers')
    /\ nupd' = [l \in 1 .. Len(layers') |-> 0]
    /\ training' = TRUE
    /\ UNCHANGED << cfgvars, opt_params, tape, logits, loss, acc, it, epoch, out, ret, hist >>

\* cell 12 up to the loop: model = NodeClassification(...); optimizer = Adam(...)
Setup ==
    /\ pc = "setup"
    /\ pc' = "loop"
    /\ opt_params' = OptimizerParams(layers)
    /\ it' = 0
    /\ UNCHANGED << cfgvars, layers, params, training, grads, tape, logits, loss, acc,
                    epoch, out, ret, hist, nupd >>

\* for epoch in range(n_epochs): the next epoch
LoopEnter ==
    /\ pc = "loop"
    /\ pc' = "train_mode"
    /\ it < Len(Range(n_epochs))
    /\ epoch' = Range(n_epochs)[it + 1]
    /\ it' = it + 1
    /\ UNCHANGED << cfgvars, layers, params, opt_params, training, grads, tape, logits,
                    loss, acc, out, ret, hist, nupd >>

\* for epoch in range(n_epochs): the range is exhausted
LoopExit ==
    /\ pc = "loop"
    /\ pc' = "test"
    /\ it >= Len(Range(n_epochs))
    /\ UNCHANGED << cfgvars, layers, params, opt_params, training, grads, tape, logits,
                    loss, acc, it, epoch, out, ret, hist, nupd >>

\* the loop without model.train(): the mode stays as the last call left it
SetTrainSkipped ==
    /\ pc = "train_mode"
    /\ pc' = "forward"
    /\ UNCHANGED << cfgvars, layers, params, opt_params, training, grads, tape, logits,
                    loss, acc, it, epoch, out, ret, hist, nupd >>

\* model.train()
SetTrain ==
    /\ pc = "train_mode"
    /\ pc' = "forward"
    /\ training' = TRUE
    /\ UNCHANGED << cfgvars, layers, params, opt_params, grads, tape, logits, loss, acc,
                    it, epoch, out, ret, hist, nupd >>

\* loss = model(g, features, train_idx)
ForwardLoss ==
    /\ pc = "forward"
    /\ pc' = "zero_grad"
    /\ \E mask \in MaskChoices(layers, training) :
          /\ logits' = Forward(layers, params, features, training, mask)
          /\ tape' = [params |-> params, mode |-> training, mask |-> mask]
    /\ loss' = LossOf(logits', labels, train_idx).val
    /\ hist' = Append(hist, [op |-> "forward", kind |-> "train", epoch |-> epoch,
                             idx |-> train_idx, was |-> training,
                             mode |-> training,
                             drop |-> DropLayers(layers, training),
                             depth |-> Len(layers),
                             params |-> params, logits |-> logits', res |-> loss'])
    /\ UNCHANGED << cfgvars, layers, params, opt_params, training, grads, acc, it, epoch,
                    out, ret, nupd >>

\* the loop without optimizer.zero_grad(): .grad keeps what it holds
ZeroGradSkipped ==
    /\ pc = "zero_grad"
    /\ pc' = "backward"
    /\ UNCHANGED << cfgvars, layers, params, opt_params, training, grads, tape, logits,
                    loss, acc, it, epoch, out, ret, hist, nupd >>

\* optimizer.zero_grad()
ZeroGrad ==
    /\ pc = "zero_grad"
    /\ pc' = "backward"
    /\ grads' = [l \in 1 .. Len(layers) |->
                    IF l \in opt_params THEN ZeroGrads(layers)[l] ELSE grads[l]]
    /\ UNCHANGED << cfgvars, layers, params, opt_params, training, tape, logits, loss, acc,
                    it, epoch, out, ret, hist, nupd >>

\* loss.backward()
Backward ==
    /\ pc = "backward"
    /\ pc' = "step"
    /\ grads' = With(Gradient(layers, tape, labels, train_idx),
                     LAMBDA d : Accumulate(layers, grads, d))
    /\ UNCHANGED << cfgvars, layers, params, opt_params, training, tape, logits, loss, acc,
                    it, epoch, out, ret, hist, nupd >>

\* optimizer.step()
OptStep ==
    /\ pc = "step"
    /\ pc' = "validate"
    /\ params' = OptimizerStep(layers, params, grads, opt_params)
    /\ nupd' = [l \in 1 .. Len(layers) |-> IF l \in opt_params THEN nupd[l] + 1 ELSE nupd[l]]
    /\ hist' = Append(hist, [op |-> "step", epoch |-> epoch])
    /\ UNCHANGED << cfgvars, layers, opt_params, training, grads, tape, logits, loss, acc,
                    it, epoch, out, ret >>

\* NCEvaluate(model, g, features, labels, idx) as called from the loop
NCEvaluate(idx, kind) ==
    /\ training' = EvalMode(training)
    /\ \E mask \in MaskChoices(layers, training') :
          logits' = Forward(layers, params, features, training', mask)
    /\ acc' = AccuracyOf(logits', labels, idx).val
    /\ hist' = Append(hist, [op |-> "forward", kind |-> kind, epoch |-> epoch,
                             idx |-> idx, was |-> training,
                             mode |-> training',
                             drop |-> DropLayers(layers, training'),
                             depth |-> Len(layers),
                             params |-> params, logits |-> logits', res |-> acc'])

\* acc = NCEvaluate(model, g, features, labels, val_idx)
Validate ==
    /\ pc = "validate"
    /\ pc' = "report"
    /\ NCEvaluate(val_idx, "val")
    /\ UNCHANGED << cfgvars, layers, params, opt_params, grads, tape, loss, it, epoch,
                    out, ret, nupd >>

\* a report whose loss is taken again after the update, from the table of the
\* validation pass
ReportAfterUpdate ==
    /\ pc = "report"
    /\ pc' = "loop"
    /\ out' = Append(out, [line |-> "epoch", epoch |-> epoch,
                           loss |-> LossOf(logits, labels, train_idx).val, acc |-> acc])
    /\ UNCHANGED << cfgvars, layers, params, opt_params, training, grads, tape, logits,
                    loss, acc, it, epoch, ret, hist, nupd >>

\* print("Epoch {:05d} | Loss {:.4f} | Accuracy {:.4f}".format(epoch, loss.item(), acc))
Report ==
    /\ pc = "report"
    /\ pc' = "loop"
    /\ out' = Append(out, [line |-> "epoch", epoch |-> epoch, loss |-> loss, acc |-> acc])
    /\ UNCHANGED << cfgvars, layers, params, opt_params, training, grads, tape, logits,
                    loss, acc, it, epoch, ret, hist, nupd >>

\* acc = NCEvaluate(model, g, features, labels, test_idx)
TestEval ==
    /\ pc = "test"
    /\ pc' = "print_test"
    /\ NCEvaluate(test_idx, "test")
    /\ UNCHANGED << cfgvars, layers, params, opt_params, grads, tape, loss, it, epoch,
                    out, ret, nupd >>

\* print("Test Accuracy {:.4f}".format(acc))
PrintTest ==
    /\ pc = "print_test"
    /\ pc' = "done"
    /\ out' = Append(out, [line |-> "test", acc |-> acc])
    /\ UNCHANGED << cfgvars, layers, params, opt_params, training, grads, tape, logits,
                    loss, acc, it, epoch, ret, hist, nupd >>

Next ==
    \/ BuildModel \/ Setup \/ LoopEnter \/ LoopExit
    \/ SetTrain \/ ForwardLoss \/ ZeroGrad \/ Backward \/ OptStep
    \/ Validate \/ Report \/ TestEval \/ PrintTest

Spec == Init /\ [][Next]_vars

\* The notebook is single-threaded and every statement returns: the run goes on
\* while a statement is left.
FairSpec == Spec /\ WF_vars(Next)

-----------------------------------------------------------------------------
(* Single calls of NodeClassification.forward and NCEvaluate on a given     *)
(* score table, label vector and index array                                *)

\* the index values tried: in range, negative, and just outside either end
IdxValues == {0 - NumNodes - 1, 0 - NumNodes, 0 - 1, 0, 1, NumNodes - 1, NumNodes}

IdxArrays == UNION {[1 .. n -> IdxValues] : n \in 0 .. MaxIdxLen}

\* the score tables tried: a row of scores, rotated by s columns per node
ScoreTables ==
    {[v \in Nodes |-> [c \in Classes |-> r[(c + s * v) % NClasses]]] :
        r \in [Classes -> 0 .. MaxScore], s \in 0 .. 1}

EvalInit ==
    /\ pc = "call"
    /\ n_layers = 2
    /\ n_epochs = 0
    /\ dropout = 5
    /\ labels \in LabelChoices
    /\ \E idx \in IdxArrays : train_idx = idx /\ test_idx = idx
    /\ val_idx = << >>
    /\ layers = << >>
    /\ params = << >>
    /\ opt_params = {}
    /\ training \in BOOLEAN
    /\ grads = << >>
    /\ tape = NoTape
    /\ logits \in ScoreTables
    /\ loss = NoValue
    /\ acc = NoValue
    /\ it = 0
    /\ epoch = NoEpoch
    /\ out = << >>
    /\ ret = None
    /\ hist = << >>
    /\ nupd = << >>

\* NodeClassification.forward(g, features, train_idx), after the forward pass
CallForward ==
    /\ pc = "call"
    /\ ret' = [fn |-> "forward", res |-> LossOf(logits, labels, train_idx)]
    /\ loss' = IF ret'.res.ok THEN ret'.res.val ELSE loss
    /\ pc' = IF ret'.res.ok THEN "returned" ELSE "raised"
    /\ UNCHANGED << cfgvars, layers, params, opt_params, training, grads, tape, logits,
                    acc, it, epoch, out, hist, nupd >>

\* NCEvaluate(model, g, features, labels, test_idx), after the forward pass
CallNCEvaluate ==
    /\ pc = "call"
    /\ training' = EvalMode(training)
    /\ ret' = [fn |-> "NCEvaluate", res |-> AccuracyOf(logits, labels, test_idx)]
    /\ acc' = IF ret'.res.ok THEN ret'.res.val ELSE acc
    /\ pc' = IF ret'.res.ok THEN "returned" ELSE "raised"
    /\ UNCHANGED << cfgvars, layers, params, opt_params, grads, tape, logits, loss,
                    it, epoch, out, hist, nupd >>

EvalNext == CallForward \/ CallNCEvaluate

EvalSpec == EvalInit /\ [][EvalNext]_vars

-----------------------------------------------------------------------------
(* Single constructor calls GraphSAGEModel(in_feats, n_hidden, out_dim,     *)
(* n_layers, activation, dropout, aggregator_type), each followed by one    *)
(* forward pass of the model built                                          *)

Widths == 1 .. MaxWidth

\* a feature table of width w for the nodes of the graph
FeaturesOf(w) == [v \in Nodes |-> [c \in 0 .. (w - 1) |->
                    IF v % w = c THEN FeatScale * (v + 1) ELSE 0]]

BuildInit ==
    /\ pc = "construct"
    /\ n_layers \in (0 - 1) .. MaxLayers
    /\ n_epochs = 0
    /\ dropout \in Dropouts
    /\ labels = DataLabels
    /\ train_idx = << >>
    /\ val_idx = << >>
    /\ test_idx = << >>
    /\ layers = << >>
    /\ params = << >>
    /\ opt_params = {}
    /\ training = TRUE
    /\ grads = << >>
    /\ tape = NoTape
    /\ logits = NoValue
    /\ loss = NoValue
    /\ acc = NoValue
    /\ it = 0
    /\ epoch = NoEpoch
    /\ out = << >>
    /\ ret = None
    /\ hist = << >>
    /\ nupd = << >>

\* GraphSAGEModel(inf, hid, outd, n_layers, F.relu, dropout, 'gcn')
Construct ==
    /\ pc = "construct"
    /\ pc' = "constructed"
    /\ \E inf \in Widths, hid \in Widths, outd \in Widths :
          /\ layers' = GraphSAGEModelInit(inf, hid, outd, n_layers, "relu", dropout)
          /\ ret' = [fn |-> "GraphSAGEModel", in_feats |-> inf, n_hidden |-> hid,
                     out_dim |-> outd]
    /\ \E s \in Seeds : params' = InitParams(layers', s)
    /\ UNCHANGED << cfgvars, opt_params, training, grads, tape, logits, loss, acc, it,
                    epoch, out, hist, nupd >>

\* gconv_model(g, features) on a feature table of the input width
ConstructedForward ==
    /\ pc = "constructed"
    /\ pc' = "ran"
    /\ \E mask \in MaskChoices(layers, training) :
          logits' = Forward(layers, params, FeaturesOf(ret.in_feats), training, mask)
    /\ UNCHANGED << cfgvars, layers, params, opt_params, training, grads, tape, loss,
                    acc, it, epoch, out, ret, hist, nupd >>

BuildNext == Construct \/ ConstructedForward

BuildSpec == BuildInit /\ [][BuildNext]_vars

-----------------------------------------------------------------------------
(* Properties of the notebook run *)

\* the number of epochs the loop runs: len(range(n_epochs))
NEpochs == Len(Range(n_epochs))

IsForward(h, kind) == h.op = "forward" /\ h.kind = kind

CountOf(kind) == Cardinality({k \in 1 .. Len(hist) : IsForward(hist[k], kind)})

CountSteps == Cardinality({k \in 1 .. Len(hist) : hist[k].op = "step"})

\* C1: the run is Initialized, then (TrainStep, ValidateStep) once per epoch,
\* then Terminal.  In the history every training forward pass is followed by
\* its optimizer update and then by one evaluation on the validation subset
\* (so no two TrainSteps lie without a ValidateStep between them), the k-th
\* epoch report carries epoch index k - 1, and the evaluation on the test
\* subset comes once, last, after the validation of the last epoch.
C1_RunShape ==
    /\ \A k \in 1 .. Len(hist) :
          IF IsForward(hist[k], "test")
          THEN /\ k = Len(hist)
               /\ k = 3 * NEpochs + 1
               /\ hist[k].idx = test_idx
               /\ pc \in {"print_test", "done"}
          ELSE /\ (k - 1) \div 3 < NEpochs
               /\ (k - 1) % 3 = 0 => IsForward(hist[k], "train") /\ hist[k].idx = train_idx
               /\ (k - 1) % 3 = 1 => hist[k].op = "step"
               /\ (k - 1) % 3 = 2 => IsForward(hist[k], "val") /\ hist[k].idx = val_idx
               /\ hist[k].epoch = (k - 1) \div 3
    /\ \A k \in 1 .. Len(out) :
          IF out[k].line = "test"
          THEN k = Len(out) /\ k = NEpochs + 1 /\ pc = "done"
          ELSE out[k].epoch = k - 1 /\ k <= NEpochs /\ Len(hist) >= 3 * k
    /\ pc = "done" => Len(out) = NEpochs + 1 /\ Len(hist) = 3 * NEpochs + 1
    /\ pc \in {"train_mode", "forward"} => Len(hist) % 3 = 0 /\ Len(out) = Len(hist) \div 3
    /\ pc \in {"zero_grad", "backward", "step"} => Len(hist) % 3 = 1
    /\ pc = "validate" => Len(hist) % 3 = 2
    /\ pc = "report" => Len(hist) % 3 = 0 /\ Len(out) + 1 = Len(hist) \div 3

\* C1 witness: a finished run of two epochs or more
C1_Witness == pc = "done" /\ NEpochs >= 2 /\ Len(out) = NEpochs + 1

\* C2: the learnable parameters are written only by the optimizer update
\* (after their initialisation at construction): no forward pass, loss
\* computation, validation or test evaluation changes them, and every
\* optimizer update covers every layer of the embedding stack, once per
\* TrainStep.
C2_SoleWriter ==
    /\ [][(params' # params \/ nupd' # nupd) => pc \in {"build", "step"}]_vars
    /\ [](\A l \in 1 .. Len(layers) : nupd[l] = CountSteps)
    /\ [](CountSteps = CountOf("train") - (IF pc \in {"zero_grad", "backward", "step"}
                                            THEN 1 ELSE 0))

\* C2 witness: an optimizer update has changed the parameters of a model of
\* three layers, and a validation evaluation has run after it
C2_Witness ==
    /\ pc = "report"
    /\ Len(layers) = 3
    /\ params # tape.params
    /\ \A l \in 1 .. Len(layers) : nupd[l] = 2

\* C3: every forward pass made for evaluation (validation or test) runs in
\* evaluation mode with dropout active on no layer, whatever mode the model was
\* in at the call; dropout is active only in training forward passes.
C3_EvalNoDropout ==
    \A k \in 1 .. Len(hist) :
        hist[k].op = "forward" =>
            /\ hist[k].kind \in {"val", "test"} => ~hist[k].mode /\ hist[k].drop = {}
            /\ hist[k].drop # {} => hist[k].kind = "train"

\* C3 witness: NCEvaluate was called on a model in training mode whose layers
\* have a positive dropout probability, once for validation and once for test
C3_Witness ==
    /\ dropout > 0
    /\ \E k \in 1 .. Len(hist) : IsForward(hist[k], "val") /\ hist[k].was
                                  /\ hist[k - 2].drop # {}
    /\ \E k \in 1 .. Len(hist) : IsForward(hist[k], "test")

\* C4 (as claimed): the output layer has neither a nonlinearity nor dropout;
\* only the non-final layers carry the activation and the dropout probability.
C4_Original ==
    layers # << >> =>
        /\ layers[Len(layers)].activation = None
        /\ layers[Len(layers)].feat_drop = 0
        /\ \A l \in 1 .. (Len(layers) - 1) :
              layers[l].activation = "relu" /\ layers[l].feat_drop = dropout

\* C4 (amended): the output layer has no nonlinearity and every non-final layer
\* has the activation; the dropout probability is configured on every layer,
\* the output layer included.
C4_FinalLayer ==
    layers # << >> =>
        /\ layers[Len(layers)].activation = None
        /\ \A l \in 1 .. (Len(layers) - 1) : layers[l].activation = "relu"
        /\ \A l \in 1 .. Len(layers) : layers[l].feat_drop = dropout

\* C4 witness: the notebook's model (n_layers = 2) built with dropout
C4_Witness == layers # << >> /\ n_layers = 2 /\ dropout > 0

\* C5 (as claimed): a model built with layer count k applies exactly k
\* aggregation layers in every forward pass.
C5_Original ==
    \A k \in 1 .. Len(hist) :
        (hist[k].op = "forward" /\ n_layers >= 1) => hist[k].depth = n_layers

\* C6 (as claimed): with a non-positive layer count or a non-positive epoch
\* count the run aborts with a ConfigurationError: no model is built, no
\* forward pass or optimizer update runs and nothing is reported.
C6_Original ==
    (n_layers <= 0 \/ n_epochs <= 0) => (layers = << >> /\ hist = << >> /\ out = << >>)

\* C10: for every epoch count n the run reaches Terminal (the test accuracy
\* printed) and stays there: from some point on the run is over, having made
\* exactly n optimizer updates and n validation evaluations (none when
\* range(n) is empty) and exactly one test evaluation.
C10_Terminates ==
    <>[](/\ pc = "done"
         /\ CountSteps = (IF n_epochs > 0 THEN n_epochs ELSE 0)
         /\ CountOf("val") = (IF n_epochs > 0 THEN n_epochs ELSE 0)
         /\ CountOf("test") = 1)

\* C10 witness: a run of MaxEpochs epochs has ended
C10_Witness == pc = "done" /\ n_epochs = MaxEpochs /\ CountSteps = MaxEpochs /\ CountOf("test") = 1

-----------------------------------------------------------------------------
(* Properties of single calls *)

Called(fn) == pc # "call" /\ ret.fn = fn

\* C7 (as claimed): on an empty index array NodeClassification.forward and
\* NCEvaluate both fail (EmptySubset); neither returns a value.
C7_Original == (pc # "call" /\ Len(train_idx) = 0) => pc = "raised"

\* C8 (as claimed): on an index array holding an index outside [0, N), a
\* negative one included, both functions fail (OutOfRange); no value is
\* computed from another node's row in place of the invalid index.
C8_Original ==
    (pc # "call" /\ \E k \in 1 .. Len(train_idx) : train_idx[k] \notin Nodes) => pc = "raised"

\* the lowest-indexed class among those of maximal score
LowestBest(row) == CHOOSE c \in Classes :
                       /\ \A d \in Classes : row[d] <= row[c]
                       /\ \A d \in Classes : (\A e \in Classes : row[e] <= row[d]) => c <= d

\* C9: on a non-empty array of node indices NCEvaluate returns the number of
\* positions whose predicted class (maximal score, lowest index on ties)
\* equals the true label, over the length of the array: a value in [0, 1].
C9_Accuracy ==
    (Called("NCEvaluate") /\ test_idx # << >> /\ \A k \in 1 .. Len(test_idx) : test_idx[k] \in Nodes)
        => /\ ret.res.ok
           /\ ret.res.val =
                 << Cardinality({k \in 1 .. Len(test_idx) :
                        LowestBest(logits[test_idx[k]]) = labels[test_idx[k]]}),
                    Len(test_idx) >>
           /\ 0 <= ret.res.val[1]
           /\ ret.res.val[1] <= ret.res.val[2]
           /\ acc = ret.res.val

\* C9 witness: NCEvaluate returned on two distinct nodes, one predicted right
\* and one wrong, where the right one has several classes tied for the maximum
C9_Witness ==
    /\ Called("NCEvaluate")
    /\ Len(test_idx) = 2
    /\ test_idx[1] \in Nodes /\ test_idx[2] \in Nodes /\ test_idx[1] # test_idx[2]
    /\ ret.res.ok
    /\ ret.res.val = << 1, 2 >>
    /\ \E k \in 1 .. 2 :
          /\ LowestBest(logits[test_idx[k]]) = labels[test_idx[k]]
          /\ \E d \in Classes : d # labels[test_idx[k]]
                                 /\ logits[test_idx[k]][d] = logits[test_idx[k]][labels[test_idx[k]]]


-----------------------------------------------------------------------------
(* Properties of the run that compare forward passes *)

\* a forward pass made for evaluation
IsEval(h) == h.op = "forward" /\ h.kind \in {"val", "test"}

\* C11: inference is deterministic.  Any two evaluation forward passes of the
\* run made with the same parameters (same graph, same features) produced the
\* same output table, so the accuracy either NCEvaluate call returned is the
\* accuracy of the other call's table on its own subset, and two calls on the
\* same subset returned the same accuracy.
C11_Deterministic ==
    \A j \in 1 .. Len(hist) : \A k \in 1 .. Len(hist) :
        (IsEval(hist[j]) /\ IsEval(hist[k]) /\ hist[j].params = hist[k].params) =>
            /\ hist[j].logits = hist[k].logits
            /\ hist[k].res = AccuracyOf(hist[j].logits, labels, hist[k].idx).val
            /\ hist[j].idx = hist[k].idx => hist[j].res = hist[k].res

\* C11 witness: a model with dropout configured was trained, then evaluated on
\* the validation subset and on the test subset with no update between
C11_Witness ==
    /\ dropout > 0
    /\ Len(layers) = 3
    /\ \E j \in 1 .. Len(hist) : \E k \in 1 .. Len(hist) :
          /\ IsForward(hist[j], "val") /\ IsForward(hist[k], "test")
          /\ hist[j].was
          /\ hist[j].params = hist[k].params
          /\ \E s \in Seeds : hist[j].params # InitParams(layers, s)


-----------------------------------------------------------------------------
(* Properties of single constructor calls *)

\* C12: for every layer count, input width, hidden width and output width the
\* layer sequence built is width-consistent: the first layer reads in_feats
\* columns, the last layer writes out_dim columns and every layer writes as
\* many columns as the next one reads; a forward pass of the model built runs
\* through and yields rows of out_dim columns.
C12_WidthsChain ==
    pc \in {"constructed", "ran"} =>
        /\ Len(layers) >= 2
        /\ layers[1].in_feats = ret.in_feats
        /\ layers[Len(layers)].out_feats = ret.out_dim
        /\ \A l \in 1 .. (Len(layers) - 1) : layers[l].out_feats = layers[l + 1].in_feats
        /\ pc = "ran" => \A v \in Nodes : DOMAIN logits[v] = 0 .. (ret.out_dim - 1)

\* C12 witness: a model with a hidden layer, built on three different widths,
\* has run a forward pass
C12_Witness ==
    /\ pc = "ran"
    /\ Len(layers) = 3
    /\ ret.in_feats # ret.n_hidden /\ ret.n_hidden # ret.out_dim
    /\ ret.in_feats # ret.out_dim


-----------------------------------------------------------------------------
(* Properties of the training loop *)

\* C13: NCEvaluate leaves the model in evaluation mode (after every
\* validation, and after the test evaluation, the model is in evaluation mode
\* until the next model.train()); model.train() at the start of every epoch
\* switches it back, so every training forward pass, the ones after a
\* validation included, runs in training mode with dropout active on every
\* layer that has a positive dropout probability.
C13_ModeToggles ==
    /\ pc \in {"report", "print_test", "done"} => ~training
    /\ (pc \in {"loop", "test"} /\ it >= 1) => ~training
    /\ (pc = "train_mode" /\ it >= 2) => ~training
    /\ pc \in {"forward", "zero_grad", "backward", "step", "validate"} => training
    /\ \A k \in 1 .. Len(hist) :
          /\ IsForward(hist[k], "train") =>
                /\ hist[k].mode
                /\ hist[k].drop = {l \in 1 .. Len(layers) : layers[l].feat_drop > 0}
          /\ IsForward(hist[k], "val") => hist[k].was /\ ~hist[k].mode

\* C13 witness: the training forward pass of the second epoch has run, after
\* the validation of the first, on a model with dropout configured
C13_Witness ==
    /\ pc = "zero_grad"
    /\ it = 2
    /\ dropout > 0
    /\ IsForward(hist[Len(hist) - 1], "val") /\ ~hist[Len(hist) - 1].mode
    /\ IsForward(hist[Len(hist)], "train") /\ hist[Len(hist)].drop # {}


\* C14: within a TrainStep the order is forward/loss, gradient reset,
\* backward, optimizer update.  When the backward pass starts every gradient
\* is zero, and the gradients the optimizer update of epoch e is about to
\* consume are exactly the gradient of the loss of epoch e's forward pass
\* (taken at the parameters the update is applied to): nothing of an earlier
\* epoch is left in them.
C14_FreshGradients ==
    /\ pc = "backward" => grads = ZeroGrads(layers)
    /\ pc \in {"zero_grad", "backward", "step"} =>
          /\ IsForward(hist[Len(hist)], "train")
          /\ hist[Len(hist)].epoch = epoch
          /\ tape.params = params
    /\ pc = "step" =>
          grads = Accumulate(layers, ZeroGrads(layers),
                             Gradient(layers, tape, labels, train_idx))

\* C14 witness: the update of the second epoch is about to consume non-zero
\* gradients, after a first update that changed the parameters
C14_Witness ==
    /\ pc = "step"
    /\ it = 2
    /\ grads # ZeroGrads(layers)
    /\ \A l \in 1 .. Len(layers) : nupd[l] = 1
    /\ \E s \in Seeds : params # InitParams(layers, s)


\* the number of optimizer updates made before the k-th entry of the history
Version(k) == Cardinality({j \in 1 .. (k - 1) : hist[j].op = "step"})

\* C15: the two metrics reported for epoch e refer to different parameter
\* versions.  The loss is the loss of the training forward pass, made in
\* training mode (dropout active) before the update of epoch e, on the
\* parameters the previous validation saw; the accuracy is the one of the
\* validation pass, made with dropout off after that update.  The test
\* accuracy printed last is the one of the test pass, made on exactly the
\* parameters of the last validation pass.
C15_ReportVersions ==
    \A k \in 1 .. Len(out) :
        IF out[k].line = "epoch"
        THEN LET tr == hist[3 * k - 2]
                 va == hist[3 * k]
             IN  /\ IsForward(tr, "train") /\ IsForward(va, "val")
                 /\ out[k].loss = tr.res
                 /\ tr.res = LossOf(tr.logits, labels, train_idx).val
                 /\ tr.mode
                 /\ tr.drop = {l \in 1 .. Len(layers) : layers[l].feat_drop > 0}
                 /\ Version(3 * k - 2) = k - 1
                 /\ k > 1 => tr.params = hist[3 * k - 3].params
                 /\ out[k].acc = va.res
                 /\ va.res = AccuracyOf(va.logits, labels, val_idx).val
                 /\ ~va.mode /\ va.drop = {}
                 /\ Version(3 * k) = k
        ELSE LET te == hist[Len(hist)]
             IN  /\ IsForward(te, "test")
                 /\ out[k].acc = te.res
                 /\ te.res = AccuracyOf(te.logits, labels, test_idx).val
                 /\ te.drop = {}
                 /\ te.params = params
                 /\ Len(hist) > 1 =>
                       /\ IsForward(hist[Len(hist) - 1], "val")
                       /\ te.params = hist[Len(hist) - 1].params

\* C15 witness: a finished run with dropout whose first update changed the
\* parameters between the training pass and the validation pass of the epoch
C15_Witness ==
    /\ pc = "done"
    /\ dropout > 0
    /\ Len(out) >= 3
    /\ hist[1].params # hist[3].params
    /\ hist[4].params # hist[6].params


\* labs with the label of every node outside the training subset moved by s
Relabel(labs, s) ==
    [v \in Nodes |-> IF \E k \in 1 .. Len(train_idx) : train_idx[k] = v
                     THEN labs[v] ELSE (labs[v] + s) % NClasses]

\* C16: held-out labels never influence training.  The subsets are disjoint,
\* and at every point of the run the training loss just computed and the
\* parameters just written by the optimizer update are what the same
\* statements compute when the labels of all validation and test nodes are
\* replaced: a second run that differs only in those labels (same graph,
\* features, initial parameters and dropout masks) therefore goes through the
\* same parameters and reports the same losses, step by step.
C16_HeldOutLabels ==
    /\ \A j \in 1 .. Len(train_idx) :
          /\ \A k \in 1 .. Len(val_idx) : train_idx[j] # val_idx[k]
          /\ \A k \in 1 .. Len(test_idx) : train_idx[j] # test_idx[k]
    /\ \A s \in 1 .. (NClasses - 1) :
          /\ pc \in {"zero_grad", "backward", "step"} =>
                loss = LossOf(logits, Relabel(labels, s), train_idx).val
          /\ pc = "validate" =>
                params = OptimizerStep(layers, tape.params,
                             Accumulate(layers, ZeroGrads(layers),
                                 Gradient(layers, tape, Relabel(labels, s), train_idx)),
                             opt_params)
    /\ \A k \in 1 .. Len(out) :
          out[k].line = "epoch" =>
              \A s \in 1 .. (NClasses - 1) :
                  out[k].loss = LossOf(hist[3 * k - 2].logits, Relabel(labels, s),
                                       train_idx).val

\* C16 witness: two epochs have been trained, the updates changed the
\* parameters, and replacing the held-out labels would change the validation
\* accuracy just computed
C16_Witness ==
    /\ pc = "report"
    /\ it = 2
    /\ params # tape.params
    /\ \E s \in Seeds : tape.params # InitParams(layers, s)
    /\ \E s \in 1 .. (NClasses - 1) :
          AccuracyOf(logits, Relabel(labels, s), val_idx).val # acc

====
